---- MODULE Spec2Model ----
(***************************************************************************)
(* A model of the neom mesh viewer: the wireframe instance builder         *)
(* (edge_transformations, vertex_transformations), ModelEntry, the asset   *)
(* loader load_models and the egui panels that own the Resources store.    *)
(*                                                                         *)
(* Conventions.  Mesh indices are the 0-based u32 values of the source; a  *)
(* TLA+ sequence is 1-based, so positions[i] of the source is              *)
(* positions[i + 1] here.  An f32 material parameter is held in tenths     *)
(* (1.0 is 10, 0.7 is 7).  A 4x4 instance matrix is held by the three      *)
(* factors edge_transform multiplies: the translation, the vector the      *)
(* X axis is turned onto (before normalisation) and the squared X scale.   *)
(***************************************************************************)
EXTENDS Integers, Sequences, FiniteSets, TLC

VARIABLES
    models,    \* Resources.models: the sequence of ModelEntry records
    config,    \* gui::Config
    lock,      \* state of the RwLock around Resources: "free" or "write"
    call,      \* the load_models call in flight, with its local variables
    crashed,   \* a panic has unwound the render loop
    drawn,     \* per entry, the objects handed to target.render in the last frame
    edits,     \* number of slider changes made so far
    input,     \* the CpuMesh handed to the instance builder (SpecMesh)
    wire       \* the Instances the builder returned for input (SpecMesh)

vars == <<models, config, lock, call, crashed, drawn, edits, input, wire>>

(***************************************************************************)
(* Bounds of the model.                                                    *)
(***************************************************************************)
MaxVerts == 4
MaxTris == 2
MaxModels == 2
MaxDirLen == 2
MaxEdits == 1

(***************************************************************************)
(* Helpers on sequences.                                                   *)
(***************************************************************************)
Range(s) == {s[i] : i \in DOMAIN s}

RECURSIVE SeqsUpTo(_, _)
SeqsUpTo(S, n) ==
    IF n = 0 THEN {<<>>}
    ELSE LET shorter == SeqsUpTo(S, n - 1)
         IN  shorter \cup {Append(s, x) : s \in {t \in shorter : Len(t) = n - 1}, x \in S}

RECURSIVE Flatten(_)
Flatten(ss) == IF ss = <<>> THEN <<>> ELSE Head(ss) \o Flatten(Tail(ss))

IsPrefix(s, t) == Len(s) <= Len(t) /\ \A i \in DOMAIN s : s[i] = t[i]

(***************************************************************************)
(* CpuMesh values.                                                         *)
(***************************************************************************)
\* Indices::U32(data), or Indices::None for a mesh without an index buffer.
U32(data) == [tag |-> "U32", data |-> data]

NoIndices == [tag |-> "None", data |-> <<>>]

Corner(i) == <<i % 2, (i \div 2) % 2, i \div 4>>

CornerPositions(n) == [i \in 1..n |-> Corner(i - 1)]

CpuMesh(positions, indices) ==
    [positions |-> positions, indices |-> indices, normals |-> "None"]

TriangleMesh == CpuMesh(CornerPositions(3), U32(<<0, 1, 2>>))

QuadMesh == CpuMesh(CornerPositions(4), U32(<<0, 1, 2, 2, 1, 3>>))

CubeMesh ==
    CpuMesh(CornerPositions(8),
        U32(<<0, 2, 3,  0, 3, 1,
              4, 5, 7,  4, 7, 6,
              0, 1, 5,  0, 5, 4,
              2, 6, 7,  2, 7, 3,
              0, 4, 6,  0, 6, 2,
              1, 3, 7,  1, 7, 5>>))

PointCloudMesh == CpuMesh(CornerPositions(3), NoIndices)

\* The triangles a bounded input mesh is made of: three distinct indices
\* (edge_transform normalises p2 - p1, which needs p1 # p2).
Triples ==
    {<<a, b, c>> : a \in 0..MaxVerts - 1, b \in 0..MaxVerts - 1, c \in 0..MaxVerts - 1}

ProperTriples == {t \in Triples : t[1] # t[2] /\ t[2] # t[3] /\ t[3] # t[1]}

MeshInputs ==
    {CpuMesh(CornerPositions(MaxVerts), U32(Flatten(ts))) : ts \in SeqsUpTo(ProperTriples, MaxTris)}
        \cup {TriangleMesh, CubeMesh}

(***************************************************************************)
(* The instance builder, lib.rs.                                           *)
(***************************************************************************)
Sub(p, q) == <<p[1] - q[1], p[2] - q[2], p[3] - q[3]>>

Dot(p, q) == p[1] * q[1] + p[2] * q[2] + p[3] * q[3]

edge_transform(p1, p2) ==
    [translation |-> p1,
     arc_to      |-> Sub(p2, p1),
     scale_sq    |-> Dot(Sub(p1, p2), Sub(p1, p2))]

from_translation(p) ==
    [translation |-> p, arc_to |-> <<1, 0, 0>>, scale_sq |-> 1]

FaceEdgesNoOrderTest(positions, i1, i2, i3) ==
    <<edge_transform(positions[i1 + 1], positions[i2 + 1]),
      edge_transform(positions[i2 + 1], positions[i3 + 1]),
      edge_transform(positions[i3 + 1], positions[i1 + 1])>>

\* One pass of the loop body of edge_transformations, for the face i1 i2 i3.
FaceEdges(positions, i1, i2, i3) ==
    (IF i1 < i2 THEN <<edge_transform(positions[i1 + 1], positions[i2 + 1])>> ELSE <<>>)
        \o (IF i2 < i3 THEN <<edge_transform(positions[i2 + 1], positions[i3 + 1])>> ELSE <<>>)
        \o (IF i3 < i1 THEN <<edge_transform(positions[i3 + 1], positions[i1 + 1])>> ELSE <<>>)

RECURSIVE EdgeLoop(_, _, _, _)
EdgeLoop(positions, indices, f, nfaces) ==
    IF f >= nfaces THEN <<>>
    ELSE FaceEdges(positions, indices[3 * f + 1], indices[3 * f + 2], indices[3 * f + 3])
             \o EdgeLoop(positions, indices, f + 1, nfaces)

\* indices.to_u32().unwrap() panics on a mesh without an index buffer.
ToU32Panics(cpu_mesh) == cpu_mesh.indices.tag = "None"

\* The Instances of the edges of an indexed mesh (its transformations).
edge_transformations(cpu_mesh) ==
    EdgeLoop(cpu_mesh.positions, cpu_mesh.indices.data, 0,
             Len(cpu_mesh.indices.data) \div 3)

vertex_transformations(cpu_mesh) ==
    [i \in DOMAIN cpu_mesh.positions |-> from_translation(cpu_mesh.positions[i])]

(***************************************************************************)
(* ModelEntry, lib.rs.                                                     *)
(***************************************************************************)
BrightLo == 126
BrightHi == 255

\* The four rng.gen_range(BRIGHT.clone()) draws of get_rand_rgba, sampled by one
\* outcome that touches both ends of the range.
get_rand_rgba == {<<BrightLo, BrightHi, BrightLo, BrightHi>>}

\* PhysicalMaterial::from_cpu_material of CpuMaterial { albedo: new_opaque(r, g, b),
\* roughness: 1.0, ..Default::default() }: metallic defaults to 0.0.
new_phys_mat(rgba) ==
    [albedo    |-> [r |-> rgba[1], g |-> rgba[2], b |-> rgba[3], a |-> 255],
     metallic  |-> 0,
     roughness |-> 10]

wireframe_material ==
    [albedo    |-> [r |-> 220, g |-> 50, b |-> 50, a |-> 255],
     metallic  |-> 8,
     roughness |-> 7,
     cull      |-> "Back"]

\* ModelEntry::new panics where edge_transformations does.
NewPanics(cpu_mesh) == ToU32Panics(cpu_mesh)

ModelEntry_new(cpu_mesh, rgba) ==
    [cpu_mesh           |-> [cpu_mesh EXCEPT !.normals = "Some"],
     normal_mesh        |-> [material |-> new_phys_mat(rgba)],
     wireframe_vertices |-> [instances |-> vertex_transformations(cpu_mesh),
                             material  |-> wireframe_material],
     wireframe_edges    |-> [instances |-> edge_transformations(cpu_mesh),
                             material  |-> wireframe_material],
     render_mode        |-> "Normal"]

ModelEntry_render_AlwaysWireframe(self) ==
    [self    |-> self,
     objects |-> <<"normal_mesh", "wireframe_edges", "wireframe_vertices">>]

\* ModelEntry::render takes &mut self: it returns the entry as it leaves it and
\* the objects it hands to target.render, in order.
ModelEntry_render(self) ==
    [self    |-> self,
     objects |-> IF self.render_mode = "Normal"
                 THEN <<"normal_mesh">>
                 ELSE <<"normal_mesh", "wireframe_edges", "wireframe_vertices">>]

\* for model in &mut models { model.render(&screen, &camera, &lights); }
RenderLoop(ms) ==
    [models |-> [i \in DOMAIN ms |-> ModelEntry_render(ms[i]).self],
     drawn  |-> [i \in DOMAIN ms |-> ModelEntry_render(ms[i]).objects]]

(***************************************************************************)
(* The file system the dialogs pick from.  A file is one of:               *)
(*   tri, quad   readable, deserializes to an indexed mesh                 *)
(*   noindex     readable, deserializes to a mesh without an index buffer  *)
(*   corrupt     readable, deserialize returns Err                         *)
(*   unreadable  three_d_asset::io::load returns Err                       *)
(* and a directory entry may also be                                       *)
(*   enumerr     the ReadDir iterator yields Err for it.                   *)
(***************************************************************************)
FileKinds == {"tri", "quad", "noindex", "corrupt", "unreadable"}

DirEntryKinds == FileKinds \cup {"enumerr"}

Path(is_dir, readable, entries) ==
    [is_dir |-> is_dir, readable |-> readable, entries |-> entries]

NoPath == Path(FALSE, FALSE, <<>>)

Files == {Path(FALSE, TRUE, <<k>>) : k \in FileKinds}

\* The folders of at most n entries, and one folder that cannot be opened.
DirsWithin(n) ==
    {Path(TRUE, TRUE, es) :
        es \in SeqsUpTo(DirEntryKinds, IF n < MaxDirLen THEN n ELSE MaxDirLen)}
        \cup {Path(TRUE, FALSE, <<>>)}

\* Result values: Ok(v), Err(_), and a panic that unwinds instead of returning.
Ok(v) == [tag |-> "Ok", value |-> v]
Err == [tag |-> "Err", value |-> <<>>]
Panic == [tag |-> "Panic", value |-> <<>>]
NoRet == [tag |-> "None", value |-> <<>>]

\* three_d_asset::io::load(&[path]): the raw bytes, or Err.
io_load(kind) == IF kind = "unreadable" THEN Err ELSE Ok(kind)

\* RawAssets::deserialize(""): the CpuMesh, or Err.
deserialize(kind) ==
    CASE kind = "tri"     -> Ok(TriangleMesh)
      [] kind = "quad"    -> Ok(QuadMesh)
      [] kind = "noindex" -> Ok(PointCloudMesh)
      [] OTHER            -> Err

(***************************************************************************)
(* The asset loader, lib.rs.                                               *)
(***************************************************************************)
\* load(&[path]).unwrap().deserialize("")? followed by ModelEntry::new.
get_model(kind, rgba) ==
    IF io_load(kind).tag = "Err" THEN Panic
    ELSE IF deserialize(kind).tag = "Err" THEN Err
    ELSE IF NewPanics(deserialize(kind).value) THEN Panic
    ELSE Ok(ModelEntry_new(deserialize(kind).value, rgba))

\* The branch of load_models for a path that is not a directory.
load_single(kind, rgba) ==
    IF io_load(kind).tag = "Err" THEN Panic
    ELSE IF deserialize(kind).tag = "Err" THEN Err
    ELSE IF NewPanics(deserialize(kind).value) THEN Panic
    ELSE Ok(<<ModelEntry_new(deserialize(kind).value, rgba)>>)

AfterEntryDropsBatch(batch, r) ==
    IF r.tag = "Ok" THEN Append(batch, r.value) ELSE <<>>

\* The match on get_model's result in the loop of load_models: the local vector
\* after one entry.
AfterEntry(batch, r) ==
    IF r.tag = "Ok" THEN Append(batch, r.value) ELSE batch

Idle == [pc |-> "idle", path |-> NoPath, todo |-> <<>>, batch |-> <<>>, ret |-> NoRet]

(***************************************************************************)
(* The panels, gui/mod.rs, and the frame callback of main.rs.              *)
(***************************************************************************)
None == <<>>
Some(idx) == <<idx>>

ConfigDefault ==
    [asset_menu |-> TRUE, showing_assets |-> FALSE, selected_asset |-> None]

EnumerateFromOne(ms) == 1..Len(ms)

\* res.models.iter().enumerate(): the idx of the "Segment {idx}" buttons.
Enumerate(ms) == 0..Len(ms) - 1

ExtendReplaces(ms, loaded) == loaded

\* res.models.extend(models)
Extend(ms, loaded) == ms \o loaded

\* let selected_model = &mut models[idx] panics when idx is out of bounds.
IndexPanics(ms, cfg) ==
    cfg.selected_asset # None /\ cfg.selected_asset[1] >= Len(ms)

\* The sliders of AssetViewer::show, sampled at the two ends of their ranges.
SliderF32 == {0, 10}
SliderU8 == {0, 255}
Sliders ==
    {<<"metallic", v>> : v \in SliderF32} \cup {<<"roughness", v>> : v \in SliderF32}
        \cup {<<ch, v>> : ch \in {"r", "g", "b", "a"}, v \in SliderU8}

SlideMaterial(material, slider) ==
    CASE slider[1] = "metallic"  -> [material EXCEPT !.metallic = slider[2]]
      [] slider[1] = "roughness" -> [material EXCEPT !.roughness = slider[2]]
      [] slider[1] = "r"         -> [material EXCEPT !.albedo.r = slider[2]]
      [] slider[1] = "g"         -> [material EXCEPT !.albedo.g = slider[2]]
      [] slider[1] = "b"         -> [material EXCEPT !.albedo.b = slider[2]]
      [] slider[1] = "a"         -> [material EXCEPT !.albedo.a = slider[2]]

SlideEveryModel(ms, idx, slider) ==
    [i \in DOMAIN ms |->
        [ms[i] EXCEPT !.normal_mesh.material = SlideMaterial(@, slider)]]

\* A slider bound to a field of selected_model.normal_mesh.material.
SlideSelected(ms, idx, slider) ==
    [ms EXCEPT ![idx + 1].normal_mesh.material = SlideMaterial(@, slider)]

\* What is left of a frame once the menus have run on (ms, cfg): AssetViewer::show
\* indexes the store, then the render loop draws every entry.
FrameRest(ms, cfg) ==
    /\ config' = cfg
    /\ IF IndexPanics(ms, cfg)
       THEN /\ crashed' = TRUE
            /\ models' = ms
            /\ drawn' = drawn
       ELSE /\ crashed' = FALSE
            /\ models' = RenderLoop(ms).models
            /\ drawn' = RenderLoop(ms).drawn

Running == ~crashed /\ call.pc = "idle"

\* MainMenu::show, the "Assets" button.
ToggleAssetMenu ==
    /\ Running
    /\ FrameRest(models, [config EXCEPT !.asset_menu = ~config.asset_menu])
    /\ UNCHANGED <<lock, call, edits, input, wire>>

\* The store has room for every entry of the picked path.
HasRoom(path) == Len(models) + Len(path.entries) <= MaxModels

\* AssetMenu::show, the "Asset Folder" button: takes the write lock and enters
\* load_models with the picked folder; fs::read_dir(path).unwrap() opens it.
ClickAssetFolder(path) ==
    /\ Running
    /\ config.asset_menu
    /\ HasRoom(path)
    /\ lock = "free"
    /\ lock' = "write"
    /\ IF path.readable
       THEN /\ call' = [pc |-> "loading", path |-> path, todo |-> path.entries,
                        batch |-> <<>>, ret |-> NoRet]
            /\ crashed' = FALSE
       ELSE /\ call' = [pc |-> "panicked", path |-> path, todo |-> <<>>,
                        batch |-> <<>>, ret |-> Panic]
            /\ crashed' = TRUE
    /\ UNCHANGED <<models, config, drawn, edits, input, wire>>

\* One pass of the for loop of load_models: entry? returns the enumeration
\* error, otherwise get_model runs and its result is matched.
LoadEntry(rgba) ==
    /\ ~crashed
    /\ call.pc = "loading"
    /\ call.todo # <<>>
    /\ LET kind == Head(call.todo)
           r == get_model(kind, rgba)
       IN  IF kind = "enumerr"
           THEN /\ call' = [call EXCEPT !.pc = "returned", !.ret = Err]
                /\ crashed' = FALSE
           ELSE IF r.tag = "Panic"
           THEN /\ call' = [call EXCEPT !.pc = "panicked", !.ret = Panic]
                /\ crashed' = TRUE
           ELSE /\ call' = [call EXCEPT !.todo = Tail(call.todo),
                                        !.batch = AfterEntry(call.batch, r)]
                /\ crashed' = FALSE
    /\ UNCHANGED <<models, config, lock, drawn, edits, input, wire>>

\* The end of load_models for a directory: Ok(std::mem::take(&mut *models_write)).
ReturnBatch ==
    /\ ~crashed
    /\ call.pc = "loading"
    /\ call.todo = <<>>
    /\ call' = [call EXCEPT !.pc = "returned", !.batch = <<>>, !.ret = Ok(call.batch)]
    /\ UNCHANGED <<models, config, lock, crashed, drawn, edits, input, wire>>

\* AssetMenu::show, the "Import Asset" button: takes the write lock and runs
\* load_models on the picked file.
ClickImportAsset(path, rgba) ==
    /\ Running
    /\ config.asset_menu
    /\ HasRoom(path)
    /\ lock = "free"
    /\ lock' = "write"
    /\ LET r == load_single(path.entries[1], rgba)
       IN  IF r.tag = "Panic"
           THEN /\ call' = [pc |-> "panicked", path |-> path, todo |-> <<>>,
                            batch |-> <<>>, ret |-> Panic]
                /\ crashed' = TRUE
           ELSE /\ call' = [pc |-> "returned", path |-> path, todo |-> <<>>,
                            batch |-> <<>>, ret |-> r]
                /\ crashed' = FALSE
    /\ UNCHANGED <<models, config, drawn, edits, input, wire>>

\* if let Ok(models) = load_models(..) { res.models.extend(models); }, the drop of
\* the write guard, and the rest of the frame.
ExtendStore ==
    /\ ~crashed
    /\ call.pc = "returned"
    /\ lock' = "free"
    /\ call' = Idle
    /\ FrameRest(IF call.ret.tag = "Ok" THEN Extend(models, call.ret.value) ELSE models,
                 config)
    /\ UNCHANGED <<edits, input, wire>>

\* AssetMenu::show, a "Segment {idx}" button of the list.
SelectAsset(idx) ==
    /\ Running
    /\ config.asset_menu
    /\ lock = "free"
    /\ idx \in Enumerate(models)
    /\ FrameRest(models, [config EXCEPT !.selected_asset = Some(idx)])
    /\ UNCHANGED <<lock, call, edits, input, wire>>

\* AssetViewer::show, the "Close" button.
CloseViewer ==
    /\ Running
    /\ config.selected_asset # None
    /\ lock = "free"
    /\ IF IndexPanics(models, config)
       THEN FrameRest(models, config)
       ELSE FrameRest(models, [config EXCEPT !.selected_asset = None])
    /\ UNCHANGED <<lock, call, edits, input, wire>>

\* AssetViewer::show, a slider dragged to a new value.
EditMaterial(slider) ==
    /\ Running
    /\ config.selected_asset # None
    /\ lock = "free"
    /\ edits < MaxEdits
    /\ IF IndexPanics(models, config)
       THEN /\ FrameRest(models, config)
            /\ edits' = edits
       ELSE LET edited == SlideSelected(models, config.selected_asset[1], slider)
            IN  /\ edited # models
                /\ FrameRest(edited, config)
                /\ edits' = edits + 1
    /\ UNCHANGED <<lock, call, input, wire>>

\* A write of the public field render_mode by a client of the library.
SetRenderMode(i, mode) ==
    /\ Running
    /\ i \in DOMAIN models
    /\ models[i].render_mode # mode
    /\ FrameRest([models EXCEPT ![i].render_mode = mode], config)
    /\ UNCHANGED <<lock, call, edits, input, wire>>

NoMesh == CpuMesh(<<>>, NoIndices)

NotBuilt == [built |-> FALSE, edges |-> <<>>, vertices |-> <<>>]

Init ==
    /\ models = <<>>
    /\ config = ConfigDefault
    /\ lock = "free"
    /\ call = Idle
    /\ crashed = FALSE
    /\ drawn = <<>>
    /\ edits = 0
    /\ input = NoMesh
    /\ wire = NotBuilt

Next ==
    \/ ToggleAssetMenu
    \/ \E path \in DirsWithin(MaxModels - Len(models)) : ClickAssetFolder(path)
    \/ \E rgba \in get_rand_rgba : LoadEntry(rgba)
    \/ ReturnBatch
    \/ \E path \in Files, rgba \in get_rand_rgba : ClickImportAsset(path, rgba)
    \/ ExtendStore
    \/ \E idx \in 0..MaxModels : SelectAsset(idx)
    \/ CloseViewer
    \/ \E slider \in Sliders : EditMaterial(slider)
    \/ \E i \in 1..MaxModels, mode \in {"Normal", "Wireframe"} : SetRenderMode(i, mode)

Spec == Init /\ [][Next]_vars

(***************************************************************************)
(* The instance builder on its own: every bounded mesh is handed to the    *)
(* two builders the way ModelEntry::new hands them its cpu_mesh.           *)
(***************************************************************************)
InitMesh ==
    /\ models = <<>>
    /\ config = ConfigDefault
    /\ lock = "free"
    /\ call = Idle
    /\ crashed = FALSE
    /\ drawn = <<>>
    /\ edits = 0
    /\ input \in MeshInputs
    /\ wire = NotBuilt

BuildWireframe ==
    /\ ~wire.built
    /\ wire' = [built    |-> TRUE,
                edges    |-> edge_transformations(input),
                vertices |-> vertex_transformations(input)]
    /\ UNCHANGED <<models, config, lock, call, crashed, drawn, edits, input>>

NextMesh == BuildWireframe

SpecMesh == InitMesh /\ [][NextMesh]_vars

(***************************************************************************)
(* Properties of the instance builder, checked under SpecMesh.             *)
(***************************************************************************)
Faces(cpu_mesh) == 0..(Len(cpu_mesh.indices.data) \div 3) - 1

\* The k-th (k in 0..2) directed edge of face f, in winding order.
DirectedEdge(cpu_mesh, f, k) ==
    <<cpu_mesh.indices.data[3 * f + k + 1],
      cpu_mesh.indices.data[3 * f + ((k + 1) % 3) + 1]>>

Traversals(cpu_mesh, a, b) ==
    {<<f, k>> \in Faces(cpu_mesh) \X (0..2) : DirectedEdge(cpu_mesh, f, k) = <<a, b>>}

UndirectedEdges(cpu_mesh) ==
    {{DirectedEdge(cpu_mesh, f, k)[1], DirectedEdge(cpu_mesh, f, k)[2]} :
        f \in Faces(cpu_mesh), k \in 0..2}

VertexIds(cpu_mesh) == 0..Len(cpu_mesh.positions) - 1

\* Every undirected edge lies on at most two faces, and two faces that share it
\* traverse it in opposite index order.
IsManifoldOrBoundary(cpu_mesh) ==
    \A a \in VertexIds(cpu_mesh), b \in VertexIds(cpu_mesh) :
        /\ Cardinality(Traversals(cpu_mesh, a, b)) <= 1
        /\ a = b => Traversals(cpu_mesh, a, b) = {}

\* No boundary: every edge is traversed once in each direction.
IsClosed(cpu_mesh) ==
    /\ IsManifoldOrBoundary(cpu_mesh)
    /\ \A e \in UndirectedEdges(cpu_mesh) :
        \A a \in e, b \in e :
            a # b => Cardinality(Traversals(cpu_mesh, a, b)) = 1

\* The instances of wire.edges that join positions a and b, in either direction.
InstancesJoining(cpu_mesh, a, b) ==
    {i \in DOMAIN wire.edges :
        \/ wire.edges[i] = edge_transform(cpu_mesh.positions[a + 1], cpu_mesh.positions[b + 1])
        \/ wire.edges[i] = edge_transform(cpu_mesh.positions[b + 1], cpu_mesh.positions[a + 1])}

\* C1: for a manifold or boundary-only mesh, edge_transformations emits exactly
\* one instance per distinct unordered index pair that is an edge of a triangle,
\* boundary edges included.
C1_OneInstancePerEdge ==
    (wire.built /\ IsManifoldOrBoundary(input)) =>
        /\ Len(wire.edges) = Cardinality(UndirectedEdges(input))
        /\ \A e \in UndirectedEdges(input) :
            \A a \in e, b \in e :
                a < b => Cardinality(InstancesJoining(input, a, b)) = 1

\* C2: the single triangle (0,1,2) over P0, P1, P2 gives 3 edge instances and 3
\* vertex instances, one per position.
C2_SingleTriangle ==
    (wire.built /\ input = TriangleMesh) =>
        /\ Len(wire.edges) = 3
        /\ Len(wire.vertices) = 3
        /\ \A i \in 1..3 : wire.vertices[i].translation = input.positions[i]

\* C3 as stated: the closed cube of 12 triangles over 8 vertices gives 12 edge
\* instances and 8 vertex instances.
C3_CubeTwelveEdges ==
    (wire.built /\ input = CubeMesh) =>
        /\ Len(wire.edges) = 12
        /\ Len(wire.vertices) = 8

\* C3 as amended: the closed cube of 12 triangles over 8 vertices gives 18 edge
\* instances (its 12 sides and 6 face diagonals, half of the 36 triangle
\* sides) and 8 vertex instances; any closed mesh gives half as many edge
\* instances as it has triangle sides.
C3_CubeEighteenEdges ==
    wire.built =>
        /\ input = CubeMesh =>
            /\ Len(wire.edges) = 18
            /\ Len(wire.vertices) = 8
        /\ IsClosed(input) =>
            /\ 2 * Len(wire.edges) = 3 * Cardinality(Faces(input))
            /\ Len(wire.vertices) = Len(input.positions)

C3_Witness ==
    /\ wire.built
    /\ input = CubeMesh
    /\ IsClosed(input)
    /\ Cardinality(Faces(input)) = 12

(***************************************************************************)
(* Properties of the loader, the store and the panels, checked under Spec. *)
(***************************************************************************)
\* What the code never rewrites of an entry after ModelEntry::new.
Frozen(e) ==
    [cpu_mesh |-> e.cpu_mesh,
     edges    |-> e.wireframe_edges.instances,
     vertices |-> e.wireframe_vertices.instances]

FrozenSeq(ms) == [i \in DOMAIN ms |-> Frozen(ms[i])]

\* The files that hold a mesh the builder accepts: the loadable entries.
Loadable(kind) == kind \in {"tri", "quad"}

LoadableOf(entries) == SelectSeq(entries, Loadable)

\* The mesh buffers of the entries a listing should give, in listing order.
LoadableMeshes(entries) ==
    [i \in DOMAIN LoadableOf(entries) |->
        [deserialize(LoadableOf(entries)[i]).value EXCEPT !.normals = "Some"]]

MeshesOf(ms) == [i \in DOMAIN ms |-> ms[i].cpu_mesh]

CallEnded == call.pc \in {"returned", "panicked"}

\* C4: load_models on a directory of N entries of which K cannot be loaded and
\* built returns Ok with exactly the N-K loadable entries, whatever makes the
\* K fail.
C4_DirectoryLoadIsolation ==
    (/\ CallEnded
     /\ call.path.is_dir
     /\ call.path.readable
     /\ "enumerr" \notin Range(call.path.entries)) =>
        /\ call.pc = "returned"
        /\ call.ret.tag = "Ok"
        /\ Len(call.ret.value) =
              Len(call.path.entries)
                  - Cardinality({i \in DOMAIN call.path.entries :
                                    ~Loadable(call.path.entries[i])})
        /\ MeshesOf(call.ret.value) = LoadableMeshes(call.path.entries)

\* C5: load_models on a single file returns Err to its caller when the file
\* cannot be loaded and parsed (no success, no abort), and a sequence of exactly
\* one entry otherwise.
C5_SingleFileResult ==
    (CallEnded /\ ~call.path.is_dir) =>
        /\ call.pc = "returned"
        /\ IF Loadable(call.path.entries[1])
           THEN call.ret.tag = "Ok" /\ Len(call.ret.value) = 1
           ELSE call.ret.tag = "Err"

ExpectedObjects(mode) ==
    IF mode = "Normal"
    THEN <<"normal_mesh">>
    ELSE <<"normal_mesh", "wireframe_edges", "wireframe_vertices">>

DrawnFollowsMode ==
    \A i \in DOMAIN drawn :
        /\ i \in DOMAIN models
        /\ drawn[i] = ExpectedObjects(models[i].render_mode)

\* C6: every frame draws each entry by its render mode at the time of the call
\* (Normal: the solid only; Wireframe: solid, edges, vertices, in that order),
\* and nothing but a write of render_mode by the client changes a mode.
C6_RenderFollowsMode ==
    [][/\ DrawnFollowsMode'
       /\ \/ \A i \in DOMAIN models :
                /\ i \in DOMAIN models'
                /\ models'[i].render_mode = models[i].render_mode
          \/ \E i \in 1..MaxModels, mode \in {"Normal", "Wireframe"} : SetRenderMode(i, mode)]_vars

C6_Witness ==
    /\ Len(models) = 2
    /\ models[1].render_mode = "Wireframe"
    /\ models[2].render_mode = "Normal"
    /\ drawn = <<<<"normal_mesh", "wireframe_edges", "wireframe_vertices">>,
                 <<"normal_mesh">>>>

\* C7: a material edit through the viewer leaves the selected entry's edge and
\* vertex instances, its mesh buffers and its render mode as they were, and every
\* other entry of the store untouched.
C7_EditKeepsGeometry ==
    [][(models' # models /\ \E slider \in Sliders : EditMaterial(slider)) =>
          /\ Len(models') = Len(models)
          /\ \A i \in DOMAIN models :
                IF i = config.selected_asset[1] + 1
                THEN /\ Frozen(models'[i]) = Frozen(models[i])
                     /\ models'[i].render_mode = models[i].render_mode
                     /\ models'[i].wireframe_edges = models[i].wireframe_edges
                     /\ models'[i].wireframe_vertices = models[i].wireframe_vertices
                ELSE models'[i] = models[i]]_vars

C7_Witness ==
    /\ edits > 0
    /\ Len(models) = 2
    /\ config.selected_asset = Some(1)
    /\ models[2].render_mode = "Wireframe"
    /\ models[2].normal_mesh.material.metallic = 10
    /\ models[1].normal_mesh.material.metallic = 0

\* C8: the store is append-only: across every step the old sequence of entries
\* is a prefix of the new one, and a load_models call that returned Err leaves it
\* as it was.
C8_AppendOnly ==
    [][/\ models' = models \/ IsPrefix(FrozenSeq(models), FrozenSeq(models'))
       /\ (call.pc = "returned" /\ call.ret.tag = "Err") => models' = models]_vars

C8_Witness ==
    /\ Len(models) = 1
    /\ call.pc = "returned"
    /\ call.ret.tag = "Err"

\* The part of C9 that the amendment keeps: while a directory is being loaded
\* the write lock is held and the store does not change, and the store takes the
\* whole batch, all loadable entries of the listing, in the one step that ends
\* the handler.
ImportIsAtomic ==
    /\ call.pc \in {"loading", "returned"} => lock = "write"
    /\ call.pc = "loading" => models' = models
    /\ (models' # models /\ FrozenSeq(models') # FrozenSeq(models)) => call.pc = "returned"
    /\ (call.pc = "returned" /\ call.path.is_dir /\ call.ret.tag = "Ok") =>
          MeshesOf(models') = MeshesOf(models) \o LoadableMeshes(call.path.entries)

\* C9 as stated: a directory import is atomic for readers of the store, and
\* load_models returns only after every file of the directory has been attempted.
C9_AtomicAfterEveryFile ==
    [][/\ ImportIsAtomic
       /\ (call.pc = "loading" /\ call'.pc = "returned") =>
             (call.todo = <<>> \/ Tail(call.todo) = <<>>)]_vars

\* C9 as amended: a directory import is atomic for readers of the store, and
\* load_models returns Ok only after every file of the directory has been
\* attempted; it may return Err earlier, when the enumeration of an entry fails,
\* and the store is then left as it was.
C9_AtomicOkAfterEveryFile ==
    [][/\ ImportIsAtomic
       /\ (call.pc = "loading" /\ call'.pc = "returned" /\ call'.ret.tag = "Ok") =>
             call.todo = <<>>
       /\ (call.pc = "returned" /\ call.ret.tag = "Err") => models' = models]_vars

C9_Witness ==
    /\ call.pc = "loading"
    /\ lock = "write"
    /\ call.batch # <<>>
    /\ call.todo # <<>>

\* C10: selected_asset is None or Some(idx) with idx below the number of
\* entries of the store, so models[idx] in AssetViewer::show is in bounds.
C10_SelectionInBounds ==
    \/ config.selected_asset = None
    \/ /\ config.selected_asset[1] >= 0
       /\ config.selected_asset[1] < Len(models)

C10_Witness ==
    /\ config.selected_asset = Some(1)
    /\ Len(models) = 2
    /\ ~crashed

====
